---- MODULE Spec2Model ----
\* Model of the component preview pipeline of the dld extension:
\* PreviewServerManager (the Vite dev-server lifecycle, the theme watcher,
\* updateComponent / updateComponentProps) and ComponentTemplateGenerator.
\*
\* JavaScript runs one job at a time.  Every action below is one job: the
\* synchronous run of a method from its call, or of a continuation from the
\* point where an awaited promise settled, up to the next await.
\* Continuations of promises that are already settled are microtasks and run
\* in FIFO order (mq); completions of real I/O (dynamic import, createServer,
\* listen, close, fs.watch events) are macrotasks and run when mq is empty.
EXTENDS Integers, Sequences, FiniteSets, TLC

\* ---------------------------------------------------------------- bounds
MaxMgr == 2      \* managers ever constructed by getInstance
MaxSrv == 2      \* Vite servers ever created by createServer
MaxMq == 2       \* pending microtask continuations
MaxStop == 1     \* stop() calls suspended at close() at one time
MaxHeldStop == 2 \* the same, when dispose() is called through a kept reference

\* ------------------------------------------------------------- constants
Port == 5174

Host == "localhost"

ValidExt == <<"ext">>

ValidWs == <<"ws">>

\* a value passed where a path is expected: a string with its text (a path
\* as its segments, "" as <<>>), or a value that is no string
StringArg(text) == [type |-> "string", text |-> text]

UndefinedArg == [type |-> "undefined", text |-> <<>>]

ObjectArg == [type |-> "object", text |-> <<>>]

\* path arguments given to getInstance
ExtArgs == {StringArg(<<>>), StringArg(ValidExt), UndefinedArg, ObjectArg}

WsArgs == {StringArg(<<>>), StringArg(ValidWs), UndefinedArg, ObjectArg}

NoComp == [name |-> "", path |-> <<>>, props |-> <<>>]

NoMsg == [text |-> "", ext |-> <<>>, ws |-> <<>>]

NoFile == [kind |-> "none"]

\* ------------------------------------------------------------- variables
VARIABLES
    instance,          \* PreviewServerManager.instance: 0 = undefined
    nMgr,              \* managers constructed so far
    extensionPath,     \* per manager
    workspacePath,     \* per manager
    viteServer,        \* per manager: server id, 0 = undefined
    isStarting,        \* per manager
    currentComponent,  \* per manager: NoComp = undefined
    themeWatcher,      \* per manager: watcher id, 0 = undefined
    servers,           \* every ViteDevServer created: [st, owner]
    watchers,          \* every fs.FSWatcher created: [st, owner]
    starts,            \* start() calls suspended at an await: [m, pc, srv,
                       \* stopReq: stop() was called since]
    stops,             \* stop() calls suspended at close(): [m, srv]
    mq,                \* microtask queue of update continuations
    themeDir,          \* <workspace>/src/theme on disk
    cssFile,           \* <ext>/preview/tailwind.css on disk
    entryFile,         \* <ext>/preview/index.jsx on disk
    firstScan,         \* history: the directory read by the scan whose
                       \* stylesheet was the first to be written, and that text
    ret                \* what the last job did, for the caller to observe

vars == <<instance, nMgr, extensionPath, workspacePath, viteServer,
          isStarting, currentComponent, themeWatcher, servers, watchers,
          starts, stops, mq, themeDir, cssFile, entryFile, firstScan, ret>>

mgrVars == <<instance, nMgr, extensionPath, workspacePath>>

lifeVars == <<viteServer, isStarting, themeWatcher, servers, watchers,
              starts, stops>>

fileVars == <<cssFile, entryFile, firstScan>>

Mgrs == 1..MaxMgr

Made == 1..nMgr

\* callers reach a manager through getInstance: the one the singleton holds
Current == {m \in Mgrs : m = instance}

RemoveAt(s, i) == SubSeq(s, 1, i - 1) \o SubSeq(s, i + 1, Len(s))

Event(ev, m, out) ==
    [ev |-> ev, m |-> m, out |-> out, d |-> NoComp, msg |-> NoMsg,
     css |-> NoFile, cssW |-> FALSE, alone |-> FALSE, stopReq |-> FALSE,
     val |-> <<>>, from |-> [exists |-> FALSE, files |-> <<>>]]

\* ------------------------------------------------- text of a theme file
RECURSIVE CommonPrefix(_, _)
CommonPrefix(a, b) ==
    IF a = <<>> \/ b = <<>> \/ Head(a) # Head(b) THEN 0
    ELSE 1 + CommonPrefix(Tail(a), Tail(b))

\* path.relative(from, to) on absolute paths given as segment sequences
PathRelative(from, to) ==
    LET k == CommonPrefix(from, to)
    IN  [i \in 1..(Len(from) - k) |-> ".."] \o SubSeq(to, k + 1, Len(to))

\* Names are kept as the sequences of their hyphen-separated segments:
\* "primary" is <<"primary">>, "color-primary" is <<"color", "primary">>. The
\* text of a theme file is the sequence of its items: a custom-property
\* declaration --s1-...-sn: outside any @theme block, an @theme block with
\* its declarations, or an @utility block given by the blanks after
\* "@utility", the name, the blanks before "{" and the tokens of the body.
Decl(segs) == [kind |-> "decl", segs |-> segs]

ThemeBlock(inline, decls) == [kind |-> "theme", inline |-> inline, decls |-> decls]

UtilityBlock(gap, name, pre, body) ==
    [kind |-> "utility", gap |-> gap, name |-> name, pre |-> pre, body |-> body]

\* the segments the model's texts use that are runs of two or three digits,
\* and those that begin with a digit
Numerals == {"50", "500", "950"}

DigitLed == Numerals \cup {"3xl"}

\* Set.add on a Set kept in insertion order
AddNew(seq, x) == IF \E i \in 1..Len(seq) : seq[i] = x THEN seq ELSE Append(seq, x)

RECURSIVE AddAll(_, _)
AddAll(seq, xs) == IF xs = <<>> THEN seq ELSE AddAll(AddNew(seq, Head(xs)), Tail(xs))

RECURSIVE Flatten(_)
Flatten(ss) == IF ss = <<>> THEN <<>> ELSE Head(ss) \o Flatten(Tail(ss))

\* every declaration of a text in the order of the text
AllDecls(text) ==
    Flatten([i \in 1..Len(text) |->
                CASE text[i].kind = "decl" -> <<text[i].segs>>
                  [] text[i].kind = "theme" -> text[i].decls
                  [] OTHER -> <<>>])

\* accumulators that start from the names of the stylesheet on disk
TokensOnDisk ==
    [colors |-> SubSeq(cssFile.colors, 25, Len(cssFile.colors)),
     spacing |-> SubSeq(cssFile.spacing, 33, Len(cssFile.spacing)),
     textSizes |-> <<>>, fonts |-> <<>>, utilityDefinitions |-> <<>>]

\* new Set() for every collection, [] for the utility definitions
NoTokens ==
    [colors |-> <<>>, spacing |-> <<>>, textSizes |-> <<>>, fonts |-> <<>>,
     utilityDefinitions |-> <<>>]

\* one match of cssVarRegex: the first group is greedy, so category is all
\* segments but the last and name is the last segment
VarMatch(acc, segs) ==
    LET n == Len(segs)
        category == SubSeq(segs, 1, n - 1)
        name == <<segs[n]>>
    IN  IF n < 2 THEN acc
        ELSE IF category = <<"color">>
        THEN [acc EXCEPT !.colors = AddNew(@, name)]
        ELSE IF category \in {<<"spacing">>, <<"size">>}
        THEN [acc EXCEPT !.spacing = AddNew(@, name)]
        ELSE IF category \in {<<"text">>, <<"font", "size">>}
        THEN [acc EXCEPT !.textSizes = AddNew(@, name)]
        ELSE IF category \in {<<"font">>, <<"font", "family">>}
        THEN [acc EXCEPT !.fonts = AddNew(@, name)]
        ELSE IF segs[n] \in Numerals
        THEN [acc EXCEPT !.colors = AddNew(@, category)]
        ELSE acc

RECURSIVE VarPass(_, _)
VarPass(acc, decls) ==
    IF decls = <<>> THEN acc ELSE VarPass(VarMatch(acc, Head(decls)), Tail(decls))

\* the four regular expressions applied inside an @theme inline block
ThemeMatch(acc, segs) ==
    LET n == Len(segs)
        c == IF n >= 3 /\ segs[1] = "color" /\ segs[n] \in Numerals
             THEN AddNew(acc.colors, SubSeq(segs, 2, n - 1)) ELSE acc.colors
        sp == IF n = 2 /\ segs[1] \in {"spacing", "size"}
              THEN AddNew(acc.spacing, <<segs[2]>>) ELSE acc.spacing
        t == IF (n = 2 /\ segs[1] = "text") \/ (n = 3 /\ segs[1] = "font" /\ segs[2] = "size")
             THEN AddNew(acc.textSizes, <<segs[n]>>) ELSE acc.textSizes
        f == IF n >= 2 /\ segs[1] = "font"
             THEN AddNew(acc.fonts, SubSeq(segs, 2, n)) ELSE acc.fonts
    IN  [acc EXCEPT !.colors = c, !.spacing = sp, !.textSizes = t, !.fonts = f]

RECURSIVE ThemePass(_, _)
ThemePass(acc, decls) ==
    IF decls = <<>> THEN acc ELSE ThemePass(ThemeMatch(acc, Head(decls)), Tail(decls))

\* the declarations of the @theme inline blocks of a text
InlineDecls(text) ==
    Flatten([i \in 1..Len(text) |->
                IF text[i].kind = "theme" /\ text[i].inline THEN text[i].decls ELSE <<>>])

Blanks(n) == [i \in 1..n |-> " "]

\* the text span of an @utility block as written in the file
UtilityText(u) ==
    <<"@utility">> \o Blanks(u.gap) \o <<u.name>> \o Blanks(u.pre) \o <<"{">>
        \o u.body \o <<"}">>

\* utilityRegex on one block: the body group [^}]+ ends before the first "}"
\* and must not be empty; fullDefinition is rebuilt from the two groups
UtilityMatch(u) ==
    LET after == u.body \o <<"}">>
        k == CHOOSE n \in 1..Len(after) :
                after[n] = "}" /\ \A j \in 1..(n - 1) : after[j] # "}"
        utilityBody == SubSeq(after, 1, k - 1)
    IN  IF u.gap >= 1 /\ utilityBody # <<>>
        THEN << <<"@utility", " ", u.name, " ", "{">> \o utilityBody \o <<"}">> >>
        ELSE <<>>

ParseCustomThemeProperties(cssContent) ==
    LET vars1 == VarPass(NoTokens, AllDecls(cssContent))
        inTheme == ThemePass(vars1, InlineDecls(cssContent))
    IN  [inTheme EXCEPT !.utilityDefinitions =
            Flatten([i \in 1..Len(cssContent) |->
                        IF cssContent[i].kind = "utility"
                        THEN UtilityMatch(cssContent[i]) ELSE <<>>])]

\* ------------------------------------------------- theme directory, files
\* A directory entry: its name, the extension the name ends in, whether
\* readFileSync succeeds on it, and its text.
ThemeFile(name, ext, readable, text) ==
    [name |-> name, ext |-> ext, readable |-> readable, text |-> text]

BrandCss ==
    ThemeFile("brand.css", "css", TRUE,
              <<Decl(<<"color", "brand">>), Decl(<<"color", "primary">>),
                Decl(<<"spacing", "3xl">>)>>)

NotesTxt == ThemeFile("notes.txt", "txt", TRUE, <<Decl(<<"color", "ocean">>)>>)

\* files is the listing in the order readdirSync returns it
NoDir == [exists |-> FALSE, files |-> <<>>]

ThemeDir(files) == [exists |-> TRUE, files |-> files]

ThemeDirs == {NoDir, ThemeDir(<<BrandCss, NotesTxt>>)}

\* theme files for the stylesheet pipeline: the same two colours declared in
\* either order, one of them alone, declarations with a shade outside and
\* inside an @theme inline block, @utility blocks written with one blank or
\* more, with a nested block and with an empty body, a file that cannot be read
OceanSandCss ==
    ThemeFile("a.css", "css", TRUE, <<Decl(<<"color", "ocean">>), Decl(<<"color", "sand">>)>>)

SandOceanCss ==
    ThemeFile("a.css", "css", TRUE, <<Decl(<<"color", "sand">>), Decl(<<"color", "ocean">>)>>)

\* a file whose declarations meet the baseline lists and the colour filter:
\* a baseline colour, spacing step and text size, a colour name that begins
\* with a digit, a semantic token
OceanCss ==
    ThemeFile("a.css", "css", TRUE,
              <<Decl(<<"color", "ocean">>), Decl(<<"color", "red">>),
                Decl(<<"spacing", "4">>), Decl(<<"text", "xl">>),
                Decl(<<"color", "500">>), Decl(<<"color", "border">>)>>)

ShadeCss ==
    ThemeFile("shade.css", "css", TRUE,
              <<Decl(<<"color", "primary", "500">>),
                Decl(<<"spacing", "3xl">>),
                ThemeBlock(TRUE, << <<"color", "coral", "500">>, <<"font", "size", "huge">> >>)>>)

UtilCss ==
    ThemeFile("util.css", "css", TRUE,
              <<UtilityBlock(1, "glow", 1, <<"x">>),
                UtilityBlock(2, "wide", 0, <<"x">>),
                UtilityBlock(1, "nest", 1, <<"a", "{", "b", "}", "c">>),
                UtilityBlock(1, "none", 1, <<>>)>>)

BrokenCss == ThemeFile("broken.css", "css", FALSE, <<Decl(<<"color", "lava">>)>>)

WideThemeDirs ==
    {NoDir, ThemeDir(<<OceanSandCss>>), ThemeDir(<<SandOceanCss>>),
     ThemeDir(<<BrokenCss, OceanCss>>), ThemeDir(<<ShadeCss, UtilCss>>)}

StandardColors ==
    <<"red", "orange", "amber", "yellow", "lime", "green", "emerald", "teal",
      "cyan", "sky", "blue", "indigo", "violet", "purple", "fuchsia", "pink",
      "rose", "slate", "gray", "zinc", "neutral", "stone", "black", "white">>

SemanticTokens ==
    {"background", "foreground", "card", "popover", "primary", "secondary",
     "muted", "accent", "destructive", "border", "input", "ring", "sidebar"}

InvalidPatterns == {"color", "font", "size", "family"}

StandardSpacing ==
    <<"0", "px", "1", "2", "3", "4", "5", "6", "7", "8", "9", "10", "11", "12",
      "14", "16", "20", "24", "28", "32", "36", "40", "44", "48", "52", "56",
      "60", "64", "72", "80", "96", "auto">>

StandardTextSizes ==
    <<"xs", "sm", "base", "lg", "xl", "2xl", "3xl", "4xl", "5xl", "6xl", "7xl",
      "8xl", "9xl">>

StandardFonts == <<"sans", "serif", "mono">>

Words(strs) == [i \in 1..Len(strs) |-> <<strs[i]>>]

\* a listing that is dropped whole when one of its files cannot be read
CssFilesAllOrNone(dir) ==
    IF \A i \in 1..Len(dir.files) : dir.files[i].readable
    THEN SelectSeq(dir.files, LAMBDA f : f.ext = "css")
    ELSE <<>>

\* files.filter((file) => file.endsWith(".css"))
CssFiles(dir) == SelectSeq(dir.files, LAMBDA f : f.ext = "css")

\* path.relative(previewRoot, themeFilePath), with the paths every
\* constructed manager has
ThemeImport(file) ==
    PathRelative(ValidExt \o <<"preview">>, ValidWs \o <<"src", "theme", file.name>>)

\* the body of the loop over themeImports: a file that cannot be read
\* contributes nothing
MergeFile(acc, file) ==
    IF file.readable
    THEN LET parsed == ParseCustomThemeProperties(file.text)
         IN  [colors |-> AddAll(acc.colors, parsed.colors),
              spacing |-> AddAll(acc.spacing, parsed.spacing),
              textSizes |-> AddAll(acc.textSizes, parsed.textSizes),
              fonts |-> AddAll(acc.fonts, parsed.fonts),
              utilityDefinitions |-> acc.utilityDefinitions \o parsed.utilityDefinitions]
    ELSE acc

RECURSIVE MergeFiles(_, _)
MergeFiles(acc, files) ==
    IF files = <<>> THEN acc ELSE MergeFiles(MergeFile(acc, Head(files)), Tail(files))

\* a filter that lets every candidate through
AnyCustomColor(color) == TRUE

\* the filter that makes validCustomColors
ValidCustomColor(color) ==
    /\ ~(Len(color) = 1 /\ color[1] \in SemanticTokens)
    /\ ~(Len(color) >= 2 /\ color[1] \in InvalidPatterns)
    /\ Len(color) > 0
    /\ color[1] \notin DigitLed

\* the stylesheet text: the theme imports and the lists interpolated into
\* the @source inline directives, each in the order the code joins it
GenerateDynamicTailwindCss(themeFiles) ==
    LET all == MergeFiles(NoTokens, themeFiles)
        validCustomColors == SelectSeq(all.colors, ValidCustomColor)
        defs == all.utilityDefinitions
    IN  [kind |-> "css",
         imports |-> [i \in 1..Len(themeFiles) |-> ThemeImport(themeFiles[i])],
         colors |-> AddAll(Words(StandardColors), validCustomColors),
         spacing |-> Words(StandardSpacing) \o all.spacing,
         textSizes |-> Words(StandardTextSizes) \o all.textSizes,
         fonts |-> Words(StandardFonts) \o all.fonts,
         utilityNames |-> AddAll(<<>>, [i \in 1..Len(defs) |-> defs[i][3]])]

\* a scan that returns the text of the first stylesheet written, once there
\* is one
ScanAndGenerateCached(dir) ==
    IF firstScan.css.kind = "css" THEN firstScan.css
    ELSE GenerateDynamicTailwindCss(IF dir.exists THEN CssFiles(dir) ELSE <<>>)

\* updateTailwindCssWithThemes up to its await: the directory scan and the
\* generation of the text
ScanAndGenerate(dir) ==
    GenerateDynamicTailwindCss(IF dir.exists THEN CssFiles(dir) ELSE <<>>)

\* ------------------------------------------------- entry point generator
\* Texts that are interpolated into the entry source are sequences of
\* characters; DQ is the double quote.
DQ == "dq"

TrueText == <<"t", "r", "u", "e">>

FalseText == <<"f", "a", "l", "s", "e">>

LabelProp == [propName |-> "label", propType |-> "string", defaultValue |-> <<"H", "i">>]

DisabledProp == [propName |-> "disabled", propType |-> "boolean", defaultValue |-> TrueText]

PropLists == {<<LabelProp, DisabledProp>>}

BtnPath == <<"ws", "src", "components", "Btn.tsx">>

\* the descriptors callers pass to updateComponent
Comps == {[name |-> "Btn", path |-> BtnPath, props |-> <<>>]}

ConvertToRelativePath(componentPath, extPath) ==
    IF extPath = <<>> THEN componentPath
    ELSE PathRelative(extPath \o <<"preview">>, componentPath)

\* the switch on prop.propType
JSXValue(prop) ==
    CASE prop.propType = "string" -> <<DQ>> \o prop.defaultValue \o <<DQ>>
      [] prop.propType = "boolean" ->
            <<"{">> \o (IF prop.defaultValue = TrueText THEN TrueText ELSE FalseText) \o <<"}">>
      [] prop.propType \in {"number", "function"} ->
            <<"{">> \o prop.defaultValue \o <<"}">>
      [] OTHER -> <<DQ>> \o prop.defaultValue \o <<DQ>>

\* propEntries: `${prop.propName}=${value}` for every prop, in order
GenerateJSXProps(props) ==
    [i \in 1..Len(props) |-> [propName |-> props[i].propName, value |-> JSXValue(props[i])]]

GenerateTemplate(componentPath, componentName, props, extPath) ==
    [kind |-> "entry",
     name |-> componentName,
     importPath |-> ConvertToRelativePath(componentPath, extPath),
     jsx |-> GenerateJSXProps(props)]

\* props a caller may pass: a string with a double quote in its text, a
\* boolean whose text is not "true", a number
QuotedProp == [propName |-> "title", propType |-> "string", defaultValue |-> <<"a", DQ, "b">>]

HiddenProp == [propName |-> "hidden", propType |-> "boolean", defaultValue |-> <<"y", "e", "s">>]

CountProp == [propName |-> "count", propType |-> "number", defaultValue |-> <<"3">>]

\* an array and an object, stored as the text of their literals
ItemsProp == [propName |-> "items", propType |-> "array", defaultValue |-> <<"[", "1", "]">>]

StyleProp == [propName |-> "style", propType |-> "object", defaultValue |-> <<"{", "}">>]

TemplatePropLists ==
    {<<>>, <<LabelProp, DisabledProp>>, <<DisabledProp, LabelProp>>,
     <<HiddenProp, CountProp>>, <<QuotedProp>>, <<ItemsProp, StyleProp>>}

TemplateComps == {[name |-> "Btn", path |-> BtnPath, props |-> pl] : pl \in TemplatePropLists}

\* the files the extension ships in preview/
ShippedCss ==
    [kind |-> "css", imports |-> <<>>, colors |-> Words(StandardColors),
     spacing |-> Words(StandardSpacing), textSizes |-> Words(StandardTextSizes),
     fonts |-> Words(StandardFonts), utilityNames |-> <<>>]

ShippedEntry == GenerateTemplate(<<"dld-skeleton", "src", "LoginCard.tsx">>, "LoginCard", <<>>, ValidExt)

\* ---------------------------------------------------------------- state
\* no stylesheet written yet
NoScan == [dir |-> NoDir, css |-> NoFile]

\* the history of scans is not kept
ScanOff == [dir |-> NoDir, css |-> [kind |-> "off"]]

InitState ==
    /\ instance = 0
    /\ nMgr = 0
    /\ extensionPath = [m \in Mgrs |-> <<>>]
    /\ workspacePath = [m \in Mgrs |-> <<>>]
    /\ viteServer = [m \in Mgrs |-> 0]
    /\ isStarting = [m \in Mgrs |-> FALSE]
    /\ currentComponent = [m \in Mgrs |-> NoComp]
    /\ themeWatcher = [m \in Mgrs |-> 0]
    /\ servers = <<>>
    /\ watchers = <<>>
    /\ starts = <<>>
    /\ stops = <<>>
    /\ mq = <<>>
    /\ themeDir \in ThemeDirs
    /\ cssFile = ShippedCss
    /\ entryFile = ShippedEntry
    /\ ret = Event("init", 0, "ok")

Init == InitState /\ firstScan = ScanOff

\* the same state, with the history of scans kept
InitTheme == InitState /\ themeDir = NoDir /\ firstScan = NoScan

\* ------------------------------------------------- queries of the manager
IsRunning(m) == viteServer[m] # 0

\* an origin that depends on the server handle
GetServerUrlIfServer(m) == IF viteServer[m] # 0 THEN <<"http", Host, Port>> ELSE <<>>

\* `http://${this.host}:${this.port}`
GetServerUrl(m) == <<"http", Host, Port>>

GetCurrentComponent(m) == currentComponent[m]

\* the ServerState of the data model
IsStopped(m) == viteServer[m] = 0 /\ ~isStarting[m]

StartsOf(m) == {i \in 1..Len(starts) : starts[i].m = m}

StopsOf(m) == {j \in 1..Len(stops) : stops[j].m = m}

\* servers created and not yet closed
OpenServers == {s \in 1..Len(servers) : servers[s].st # "closed"}

LiveWatchers == {w \in 1..Len(watchers) : watchers[w].st = "live"}

\* ---------------------------------------------------- getInstance, dispose
\* !value of JavaScript
Falsy(arg) == arg.type = "undefined" \/ (arg.type = "string" /\ arg.text = <<>>)

\* !path || typeof path !== "string"
InvalidPath(arg) == Falsy(arg) \/ arg.type # "string"

\* the constructor with the check of workspacePath left out
InvalidPathsExtOnly(ext, ws) == InvalidPath(ext)

InvalidPaths(ext, ws) == InvalidPath(ext) \/ InvalidPath(ws)

GetInstance(ext, ws) ==
    /\ IF instance # 0
       THEN /\ ret' = Event("getInstance", instance, "ok")
            /\ UNCHANGED mgrVars
       ELSE IF InvalidPaths(ext, ws)
       THEN /\ ret' = [Event("getInstance", 0, "error")
                         EXCEPT !.msg = [NoMsg EXCEPT !.text =
                                           IF InvalidPath(ext) THEN "Invalid extensionPath"
                                           ELSE "Invalid workspacePath"]]
            /\ UNCHANGED mgrVars
       ELSE /\ nMgr < MaxMgr
            /\ nMgr' = nMgr + 1
            /\ instance' = nMgr + 1
            /\ extensionPath' = [extensionPath EXCEPT ![nMgr + 1] = ext.text]
            /\ workspacePath' = [workspacePath EXCEPT ![nMgr + 1] = ws.text]
            /\ ret' = Event("getInstance", nMgr + 1, "new")
    /\ UNCHANGED <<lifeVars, currentComponent, mq, themeDir, fileVars>>

\* stopThemeWatcher
WatchersAfterStop(m) ==
    IF themeWatcher[m] # 0
    THEN [watchers EXCEPT ![themeWatcher[m]].st = "closed"]
    ELSE watchers

\* ------------------------------------------------------------------ start
\* the guard without the isStarting flag
StartGuardNoFlag(m) == viteServer[m] # 0

StartGuard(m) == viteServer[m] # 0 \/ isStarting[m]

StartError(m, cause) ==
    [text |-> cause, ext |-> extensionPath[m], ws |-> workspacePath[m]]

\* the catch and finally blocks of start()
StartFailed(m, cause, req) ==
    /\ viteServer' = [viteServer EXCEPT ![m] = 0]
    /\ isStarting' = [isStarting EXCEPT ![m] = FALSE]
    /\ ret' = [Event("start", m, "error") EXCEPT !.msg = StartError(m, cause), !.stopReq = req]

StartCall(m) ==
    /\ m \in Current
    /\ IF StartGuard(m)
       THEN /\ ret' = Event("startCall", m, "noop")
            /\ UNCHANGED lifeVars
       ELSE \E dirOk \in BOOLEAN :
              IF dirOk
              THEN /\ isStarting' = [isStarting EXCEPT ![m] = TRUE]
                   /\ starts' = Append(starts, [m |-> m, pc |-> "create", srv |-> 0,
                                                stopReq |-> FALSE])
                   /\ ret' = Event("startCall", m, "pending")
                   /\ UNCHANGED <<viteServer, themeWatcher, servers, watchers, stops>>
              ELSE /\ StartFailed(m, "Preview directory does not exist", FALSE)
                   /\ UNCHANGED <<themeWatcher, servers, watchers, starts, stops>>
    /\ UNCHANGED <<mgrVars, currentComponent, mq, themeDir, fileVars>>

\* The awaits of lines 77-97 (the dynamic imports, then createServer) leave
\* the manager as it is and fail into the same catch block: they are one
\* stage, pc = "create".  When createServer settles with a server, start()
\* stores it and calls listen.
CreateDone(i) ==
    /\ i \in 1..Len(starts)
    /\ starts[i].pc = "create"
    /\ mq = <<>>
    /\ \E ok \in BOOLEAN :
         IF ok
         THEN /\ Len(servers) < MaxSrv
              /\ servers' = Append(servers, [st |-> "created", owner |-> starts[i].m])
              /\ viteServer' = [viteServer EXCEPT ![starts[i].m] = Len(servers) + 1]
              /\ starts' = [starts EXCEPT ![i].pc = "listen", ![i].srv = Len(servers) + 1]
              /\ ret' = Event("start", starts[i].m, "pending")
              /\ UNCHANGED isStarting
         ELSE /\ StartFailed(starts[i].m, "createServer failed", starts[i].stopReq)
              /\ starts' = RemoveAt(starts, i)
              /\ UNCHANGED servers
    /\ UNCHANGED <<mgrVars, themeWatcher, watchers, stops,
                   currentComponent, mq, themeDir, fileVars>>

\* strictPort: listen fails while another server holds the port
PortFree(s) ==
    \A t \in 1..Len(servers) : t # s => servers[t].st # "listening"

\* startThemeWatcher: nothing without a theme folder, and an error of
\* fs.watch is caught
StartThemeWatcher(m) ==
    \/ /\ themeDir.exists
       /\ watchers' = Append(watchers, [st |-> "live", owner |-> m])
       /\ themeWatcher' = [themeWatcher EXCEPT ![m] = Len(watchers) + 1]
    \/ /\ UNCHANGED <<watchers, themeWatcher>>

\* listen settles; on success start() starts the theme watcher and returns
ListenDone(i) ==
    /\ i \in 1..Len(starts)
    /\ starts[i].pc = "listen"
    /\ mq = <<>>
    /\ LET m == starts[i].m
           s == starts[i].srv
       IN  \E ok \in BOOLEAN :
             IF ok
             THEN /\ PortFree(s)
                  /\ servers' = IF servers[s].st = "created"
                                THEN [servers EXCEPT ![s].st = "listening"]
                                ELSE servers
                  /\ StartThemeWatcher(m)
                  /\ isStarting' = [isStarting EXCEPT ![m] = FALSE]
                  /\ ret' = [Event("start", m, "ok") EXCEPT !.stopReq = starts[i].stopReq]
                  /\ UNCHANGED viteServer
             ELSE /\ StartFailed(m, "Port is already in use", starts[i].stopReq)
                  /\ UNCHANGED <<servers, watchers, themeWatcher>>
    /\ starts' = RemoveAt(starts, i)
    /\ UNCHANGED <<mgrVars, stops, currentComponent, mq, themeDir, fileVars>>

\* ------------------------------------------------------------------- stop
\* stop() without its early return
StopNoopNever(m) == FALSE

StopNoop(m) == viteServer[m] = 0

\* stop() from its guard to its await of close(); calling close on an
\* undefined server is a TypeError, which stop() rethrows
StopBegin(m) ==
    /\ watchers' = WatchersAfterStop(m)
    /\ themeWatcher' = [themeWatcher EXCEPT ![m] = 0]
    /\ IF viteServer[m] = 0
       THEN /\ ret' = Event("stopCall", m, "error")
            /\ UNCHANGED stops
       ELSE /\ Len(stops) < MaxStop
            /\ stops' = Append(stops, [m |-> m, srv |-> viteServer[m], run |-> ~isStarting[m]])
            /\ ret' = Event("stopCall", m, "pending")

\* a start() in flight on m notes that stop() was called meanwhile
StopSeen(m) ==
    [i \in 1..Len(starts) |->
        IF starts[i].m = m THEN [starts[i] EXCEPT !.stopReq = TRUE] ELSE starts[i]]

StopCall(m) ==
    /\ m \in Current
    /\ IF StopNoop(m)
       THEN /\ ret' = Event("stopCall", m, "noop")
            /\ UNCHANGED <<watchers, themeWatcher, stops>>
       ELSE StopBegin(m)
    /\ starts' = StopSeen(m)
    /\ UNCHANGED <<mgrVars, viteServer, isStarting, servers,
                   currentComponent, mq, themeDir, fileVars>>

\* a stop() that threw asks nothing of the start() in flight
StopFailedSeen(m) ==
    [i \in 1..Len(starts) |->
        IF starts[i].m = m THEN [starts[i] EXCEPT !.stopReq = FALSE] ELSE starts[i]]

\* close() settles: stop() clears the handle, or rethrows the error of close
CloseDone(j) ==
    /\ j \in 1..Len(stops)
    /\ mq = <<>>
    /\ \E ok \in BOOLEAN :
         IF ok
         THEN /\ servers' = [servers EXCEPT ![stops[j].srv].st = "closed"]
              /\ viteServer' = [viteServer EXCEPT ![stops[j].m] = 0]
              /\ ret' = Event("stop", stops[j].m, "ok")
              /\ UNCHANGED starts
         ELSE /\ ret' = Event("stop", stops[j].m, "error")
              /\ starts' = StopFailedSeen(stops[j].m)
              /\ UNCHANGED <<servers, viteServer>>
    /\ stops' = RemoveAt(stops, j)
    /\ UNCHANGED <<mgrVars, isStarting, themeWatcher, watchers,
                   currentComponent, mq, themeDir, fileVars>>

\* ---------------------------------------------------------------- dispose
\* dispose() leaving the singleton as it is
DisposedInstanceKept(m) == instance

\* PreviewServerManager.instance = undefined
DisposedInstance(m) == 0

\* dispose() on the manager object m, with at most cap stop() calls
\* suspended at close() at one time
DisposeOn(m, cap) ==
    /\ watchers' = WatchersAfterStop(m)
    /\ themeWatcher' = [themeWatcher EXCEPT ![m] = 0]
    /\ IF viteServer[m] # 0
       THEN /\ Len(stops) < cap
            /\ stops' = Append(stops, [m |-> m, srv |-> viteServer[m], run |-> ~isStarting[m]])
       ELSE UNCHANGED stops
    /\ instance' = DisposedInstance(m)
    /\ ret' = Event("dispose", m, "ok")
    /\ UNCHANGED <<nMgr, extensionPath, workspacePath, viteServer, isStarting,
                   servers, starts, currentComponent, mq, themeDir, fileVars>>

\* dispose() on the manager the singleton holds
Dispose(m) ==
    /\ m \in Current
    /\ DisposeOn(m, MaxStop)

\* dispose() through a reference the caller kept (extension.ts caches the
\* manager it got), whether or not the singleton still holds it
DisposeHeld(m) ==
    /\ m \in Made
    /\ DisposeOn(m, MaxHeldStop)

\* --------------------------------------------------------------- queries
\* a caller asks getServerUrl() and gets the value in ret.val
GetServerUrlCall(m) ==
    /\ m \in Current
    /\ ret' = [Event("getServerUrl", m, "ok") EXCEPT !.val = GetServerUrl(m)]
    /\ UNCHANGED <<mgrVars, lifeVars, currentComponent, mq, themeDir, fileVars>>

\* a caller asks isRunning()
IsRunningCall(m) ==
    /\ m \in Current
    /\ ret' = [Event("isRunning", m, "ok") EXCEPT !.val = <<IsRunning(m)>>]
    /\ UNCHANGED <<mgrVars, lifeVars, currentComponent, mq, themeDir, fileVars>>

\* ------------------------------------- updateComponent, updateComponentProps
\* A continuation waiting in the microtask queue: k = "css" resumes
\* updateTailwindCssWithThemes at its write, "entry" resumes updateComponent
\* after the stylesheet step, "propsRet" resumes updateComponentProps, "wcss"
\* is the write of a watcher-triggered regeneration.
Cont(k, m, d, css, via, alone) ==
    [k |-> k, m |-> m, d |-> d, css |-> css, cssW |-> FALSE, via |-> via,
     alone |-> alone, out |-> "pending",
     from |-> IF css = NoFile THEN NoDir ELSE themeDir]

IsUpdate(c) == c.k # "wcss"

Overlapped(q) == [i \in 1..Len(q) |-> [q[i] EXCEPT !.alone = ~IsUpdate(q[i])]]

\* this.currentComponent = componentInfo
\* updateComponent without the assignment to currentComponent
StoreComponentSkipped(m, d) == currentComponent

StoreComponent(m, d) == [currentComponent EXCEPT ![m] = d]

\* updateComponent from its call to the await inside
\* updateTailwindCssWithThemes; a scan that throws is caught there, and then
\* updateComponent resumes without a stylesheet write
UpdateBegin(m, d, via) ==
    /\ Len(mq) < MaxMq
    /\ currentComponent' = StoreComponent(m, d)
    /\ \E scanOk \in BOOLEAN :
         /\ ~scanOk => themeDir.exists
         /\ mq' = Append(Overlapped(mq),
                         Cont(IF scanOk THEN "css" ELSE "entry", m, d,
                              IF scanOk THEN ScanAndGenerate(themeDir) ELSE NoFile,
                              via, \A i \in 1..Len(mq) : ~IsUpdate(mq[i])))
    /\ ret' = [Event(IF via THEN "updatePropsCall" ELSE "updateCall", m, "pending")
                 EXCEPT !.d = d]

UpdateComponentCall(m, d) ==
    /\ m \in Current
    /\ UpdateBegin(m, d, FALSE)
    /\ UNCHANGED <<mgrVars, lifeVars, themeDir, fileVars>>

\* updateComponentProps without its check of currentComponent
HasComponentAlways(m) == TRUE

HasComponent(m) == currentComponent[m] # NoComp

\* the spread without the props override
PropsDescriptorKeepsProps(cur, props) == cur

\* { ...this.currentComponent, props }
PropsDescriptor(cur, props) ==
    [name |-> cur.name, path |-> cur.path, props |-> props]

UpdateComponentPropsCall(m, props) ==
    /\ m \in Current
    /\ IF HasComponent(m)
       THEN UpdateBegin(m, PropsDescriptor(currentComponent[m], props), TRUE)
       ELSE /\ ret' = [Event("updatePropsCall", m, "error")
                         EXCEPT !.msg = [NoMsg EXCEPT !.text = "No component currently loaded"]]
            /\ UNCHANGED <<currentComponent, mq>>
    /\ UNCHANGED <<mgrVars, lifeVars, themeDir, fileVars>>

\* the history after continuation c wrote, or failed to write, its stylesheet
FirstScanAfter(c, wOk) ==
    IF wOk /\ firstScan = NoScan THEN [dir |-> c.from, css |-> c.css] ELSE firstScan

\* the head of the microtask queue runs up to its next await or its return
RunMicrotask ==
    /\ mq # <<>>
    /\ LET c == Head(mq)
       IN  \E wOk \in BOOLEAN :
             CASE c.k = "css" ->
                    /\ cssFile' = IF wOk THEN c.css ELSE cssFile
                    /\ firstScan' = FirstScanAfter(c, wOk)
                    /\ mq' = Append(Tail(mq), [c EXCEPT !.k = "entry", !.cssW = wOk])
                    /\ ret' = IF wOk
                              THEN [Event("cssWrite", c.m, "ok") EXCEPT !.from = c.from]
                              ELSE Event("cssWrite", c.m, "error")
                    /\ UNCHANGED entryFile
               [] c.k = "entry" ->
                    /\ entryFile' = IF wOk
                                    THEN GenerateTemplate(c.d.path, c.d.name, c.d.props, extensionPath[c.m])
                                    ELSE entryFile
                    /\ mq' = IF c.via
                             THEN Append(Tail(mq), [c EXCEPT !.k = "propsRet",
                                                             !.out = IF wOk THEN "ok" ELSE "error"])
                             ELSE Tail(mq)
                    /\ ret' = [Event("updateComponent", c.m, IF wOk THEN "ok" ELSE "error")
                                 EXCEPT !.d = c.d, !.css = c.css, !.cssW = c.cssW, !.alone = c.alone]
                    /\ UNCHANGED <<cssFile, firstScan>>
               [] c.k = "propsRet" ->
                    /\ wOk
                    /\ mq' = Tail(mq)
                    /\ ret' = [Event("updateComponentProps", c.m, c.out)
                                 EXCEPT !.d = c.d, !.css = c.css, !.cssW = c.cssW, !.alone = c.alone]
                    /\ UNCHANGED fileVars
               [] OTHER ->
                    /\ cssFile' = IF wOk THEN c.css ELSE cssFile
                    /\ firstScan' = FirstScanAfter(c, wOk)
                    /\ mq' = Tail(mq)
                    /\ ret' = IF wOk
                              THEN [Event("watchWrite", c.m, "ok") EXCEPT !.from = c.from]
                              ELSE Event("watchWrite", c.m, "error")
                    /\ UNCHANGED entryFile
    /\ UNCHANGED <<mgrVars, lifeVars, currentComponent, themeDir>>

\* ------------------------------------------------------------ theme watcher
\* a callback that takes every file name for a stylesheet
EndsWithAnything(fileExt) == TRUE

\* filename.endsWith(".css")
EndsWithCss(fileExt) == fileExt = "css"

\* the fs.watch callback of a live watcher: onThemeFileChanged for a file
\* name ending in .css, nothing otherwise
WatchEvent(w, fileExt) ==
    /\ w \in LiveWatchers
    /\ mq = <<>>
    /\ IF EndsWithCss(fileExt)
       THEN /\ \E scanOk \in BOOLEAN :
                 /\ ~scanOk => themeDir.exists
                 /\ mq' = IF scanOk
                          THEN <<Cont("wcss", watchers[w].owner, NoComp,
                                      ScanAndGenerate(themeDir), FALSE, FALSE)>>
                          ELSE mq
                 /\ ret' = [Event("watch", watchers[w].owner,
                                  IF scanOk THEN "regen" ELSE "scanError")
                              EXCEPT !.val = <<fileExt>>]
       ELSE /\ ret' = [Event("watch", watchers[w].owner, "ignored") EXCEPT !.val = <<fileExt>>]
            /\ UNCHANGED mq
    /\ UNCHANGED <<mgrVars, lifeVars, currentComponent, themeDir, fileVars>>

\* the developer edits the workspace theme directory
ThemeEdit(t) ==
    /\ t # themeDir
    /\ themeDir' = t
    /\ ret' = Event("themeEdit", 0, "ok")
    /\ UNCHANGED <<mgrVars, lifeVars, currentComponent, mq, fileVars>>

\* ------------------------------------------------------- specifications
GetInstanceStep == \E ext \in ExtArgs, ws \in WsArgs : GetInstance(ext, ws)

StartSteps ==
    \/ \E m \in Mgrs : StartCall(m)
    \/ \E i \in 1..MaxMgr : CreateDone(i)
    \/ \E i \in 1..MaxMgr : ListenDone(i)

StopSteps ==
    \/ \E m \in Mgrs : StopCall(m)
    \/ \E j \in 1..MaxStop : CloseDone(j)

DisposeStep == \E m \in Mgrs : Dispose(m)

UpdateSteps ==
    \/ \E m \in Mgrs, d \in Comps : UpdateComponentCall(m, d)
    \/ \E m \in Mgrs, p \in PropLists : UpdateComponentPropsCall(m, p)

WatchSteps ==
    \/ RunMicrotask
    \/ \E w \in 1..MaxSrv, e \in {"css", "txt"} : WatchEvent(w, e)
    \/ \E t \in ThemeDirs : ThemeEdit(t)

QuerySteps ==
    \/ \E m \in Mgrs : GetServerUrlCall(m)
    \/ \E m \in Mgrs : IsRunningCall(m)

\* everything a caller and the environment can do
Next ==
    \/ GetInstanceStep \/ StartSteps \/ StopSteps \/ DisposeStep \/ UpdateSteps \/ WatchSteps
    \/ QuerySteps

Spec == Init /\ [][Next]_vars

\* the server lifecycle of every manager, with the theme watcher at work
LifecycleNext ==
    GetInstanceStep \/ StartSteps \/ StopSteps \/ DisposeStep \/ WatchSteps

SpecLifecycle == Init /\ [][LifecycleNext]_vars

\* every promise that start(), stop() and the scans wait for settles, and the
\* microtask queue is drained
SpecLifecycleFair ==
    /\ SpecLifecycle
    /\ WF_vars(\E i \in 1..MaxMgr : CreateDone(i))
    /\ WF_vars(\E i \in 1..MaxMgr : ListenDone(i))
    /\ WF_vars(\E j \in 1..MaxStop : CloseDone(j))
    /\ WF_vars(RunMicrotask)

\* component updates on the first manager, in every state of its server
UpdateNext ==
    GetInstanceStep \/ StartSteps \/ UpdateSteps \/ WatchSteps

SpecUpdate == Init /\ [][UpdateNext]_vars

\* the queries asked in every state of the server lifecycle
QueryNext == GetInstanceStep \/ StartSteps \/ StopSteps \/ QuerySteps

SpecQuery == Init /\ [][QueryNext]_vars

TemplateSteps ==
    \/ \E m \in Mgrs, d \in TemplateComps : UpdateComponentCall(m, d)
    \/ \E m \in Mgrs, pl \in TemplatePropLists : UpdateComponentPropsCall(m, pl)

\* the entry source generated for descriptors with every kind of prop
TemplateNext == GetInstanceStep \/ TemplateSteps \/ RunMicrotask

SpecTemplate == Init /\ [][TemplateNext]_vars

ThemeSteps ==
    \/ \E m \in Mgrs, d \in Comps : UpdateComponentCall(m, d)
    \/ \E t \in WideThemeDirs : ThemeEdit(t)

\* the stylesheet pipeline: scans made by updateComponent over a theme
\* directory that the developer edits, with the history of scans kept
ThemeNext ==
    GetInstance(StringArg(ValidExt), StringArg(ValidWs)) \/ ThemeSteps \/ RunMicrotask

SpecTheme == InitTheme /\ [][ThemeNext]_vars

\* component files outside, beside and inside the staging directory
\* <extensionPath>/preview
CardBeside == <<"ext", "Card.tsx">>

CardInside == <<"ext", "preview", "Card.tsx">>

CardNested == <<"ext", "preview", "parts", "Card.tsx">>

PathComps ==
    {[name |-> "Btn", path |-> pth, props |-> <<>>] :
        pth \in {BtnPath, CardBeside, CardInside, CardNested}}

PathSteps == \E m \in Mgrs, d \in PathComps : UpdateComponentCall(m, d)

\* the entry source generated for component files at every kind of place
PathNext == GetInstanceStep \/ PathSteps \/ RunMicrotask

SpecPath == Init /\ [][PathNext]_vars

HeldDisposeStep == \E m \in Mgrs : DisposeHeld(m)

HeldCloseStep == \E j \in 1..MaxHeldStop : CloseDone(j)

\* getInstance and dispose() through kept references, on managers that
\* start servers
DisposeNext ==
    GetInstanceStep \/ StartSteps \/ HeldDisposeStep \/ HeldCloseStep

SpecDispose == Init /\ [][DisposeNext]_vars

\* ------------------------------------------------------------------ claims
OpenServersOf(m) == {s \in OpenServers : servers[s].owner = m}

LiveWatchersOf(m) == {w \in LiveWatchers : watchers[w].owner = m}

\* state Running of the data model: a server handle and no start in progress
InRunning(m) == viteServer[m] # 0 /\ ~isStarting[m]

\* C1: in every reachable state at most one dev server that was created and
\* is not yet closed exists, whichever manager created it.
C1_AtMostOneServer == Cardinality(OpenServers) <= 1

\* C2: a start() called while a start() of the manager is in flight or a
\* server handle is held returns as a no-op and changes nothing; so at most one
\* start() per manager is ever in flight, and two calls in immediate
\* succession create one server.
C2_ReentrantStartIsNoop ==
    /\ [][(ret'.ev = "startCall"
             /\ (StartsOf(ret'.m) # {} \/ viteServer[ret'.m] # 0))
          => (ret'.out = "noop"
                /\ UNCHANGED <<mgrVars, lifeVars, currentComponent, mq, themeDir, fileVars>>)]_vars
    /\ [](\A m \in Mgrs : Cardinality(StartsOf(m)) <= 1)

C2_Witness ==
    /\ ret.ev = "startCall"
    /\ ret.out = "noop"
    /\ StartsOf(ret.m) # {}

\* C3: when start() throws, the manager is Stopped: isRunning() is false, no
\* start is in progress, no dev server of the manager is left open, no watch
\* subscription is left, and the message carries both paths.
C3_FailedStartIsStopped ==
    (ret.ev \in {"startCall", "start"} /\ ret.out = "error")
    => /\ ~IsRunning(ret.m)
       /\ ~isStarting[ret.m]
       /\ OpenServersOf(ret.m) = {}
       /\ themeWatcher[ret.m] = 0
       /\ LiveWatchersOf(ret.m) = {}
       /\ ret.msg.ext = extensionPath[ret.m]
       /\ ret.msg.ws = workspacePath[ret.m]

\* C4: once a stop() that was called in Starting or Running has completed,
\* and the start() that was in flight has completed too, the manager is
\* Stopped: no server, no watch subscription, isRunning() false.
C4_StopEndsStopped ==
    LET m == ret.m
        stopDone == ret.ev = "stop" /\ ret.out = "ok"
        startDone == ret.ev = "start" /\ ret.out \in {"ok", "error"} /\ ret.stopReq
    IN  ((stopDone \/ startDone) /\ StartsOf(m) = {} /\ StopsOf(m) = {})
        => /\ IsStopped(m)
           /\ ~IsRunning(m)
           /\ themeWatcher[m] = 0
           /\ OpenServersOf(m) = {}

\* C5: a watch subscription is live only while its manager is Running.
C5_WatcherOnlyWhileRunning ==
    \A m \in Mgrs :
        (themeWatcher[m] # 0 \/ LiveWatchersOf(m) # {}) => InRunning(m)

\* C6: while a stop() called in Running is closing the server, no watcher of
\* the manager starts a stylesheet regeneration.
C6_NoRegenerationDuringStop ==
    ~(/\ ret.ev = "watch"
      /\ ret.out = "regen"
      /\ \E j \in StopsOf(ret.m) : stops[j].run)

\* C7: stop() on a Stopped manager returns without error and changes nothing.
C7_StopWhenStoppedChangesNothing ==
    [][(ret'.ev = "stopCall" /\ viteServer[ret'.m] = 0 /\ ~isStarting[ret'.m])
       => (ret'.out = "noop"
             /\ UNCHANGED <<mgrVars, lifeVars, currentComponent, mq, themeDir, fileVars>>)]_vars

C7_Witness ==
    /\ ret.ev = "stopCall"
    /\ ret.out = "noop"
    /\ IsStopped(ret.m)
    /\ Len(servers) > 0

EntryOf(m, d) == GenerateTemplate(d.path, d.name, d.props, extensionPath[m])

UpdateReturned == ret.ev = "updateComponent" /\ ret.out = "ok"

C9_PropsWithoutComponentFails ==
    [][(ret'.ev = "updatePropsCall" /\ currentComponent[ret'.m] = NoComp)
       => (/\ ret'.out = "error"
           /\ ret'.msg.text = "No component currently loaded"
           /\ UNCHANGED <<mgrVars, lifeVars, currentComponent, mq, themeDir, fileVars>>)]_vars

C9_Witness ==
    /\ ret.ev = "updatePropsCall"
    /\ ret.out = "error"
    /\ IsRunning(ret.m)

\* C10: with a component loaded, updateComponentProps(p) does what
\* updateComponent does for the current descriptor with props replaced by p:
\* the stored descriptor keeps name and path and has props p, the same
\* stylesheet and entry writes are queued, and when it returns (no other
\* update call overlapping) the entry source of that descriptor is on disk.
C10_PropsIsUpdateWithProps ==
    /\ [][(ret'.ev = "updatePropsCall" /\ currentComponent[ret'.m] # NoComp)
          => LET m == ret'.m
                 cur == currentComponent[m]
                 new == currentComponent'[m]
                 c == mq'[Len(mq')]
             IN  /\ ret'.out = "pending"
                 /\ new.name = cur.name
                 /\ new.path = cur.path
                 /\ new.props \in PropLists
                 /\ Len(mq') = Len(mq) + 1
                 /\ c.m = m
                 /\ c.d = new
                 /\ c.k \in {"css", "entry"}
                 /\ c.k = "css" => c.css = ScanAndGenerate(themeDir)]_vars
    /\ []((ret.ev = "updateComponentProps" /\ ret.out = "ok" /\ ret.alone)
          => /\ GetCurrentComponent(ret.m) = ret.d
             /\ ret.d.props \in PropLists
             /\ entryFile = EntryOf(ret.m, ret.d))

C10_Witness ==
    /\ ret.ev = "updateComponentProps"
    /\ ret.out = "ok"
    /\ ret.alone
    /\ GetCurrentComponent(ret.m) = [name |-> "Btn", path |-> BtnPath,
                                     props |-> <<LabelProp, DisabledProp>>]

\* C11: dispose() raises no error and clears the singleton; a second
\* dispose() directly after the first changes no field of the manager, no
\* server, no watcher and no file (at most it asks the server that is already
\* closing to close again); and the manager the next getInstance constructs
\* is Stopped, with no current component and no watch subscription.
C11_DisposeIdempotent ==
    /\ [][ret'.ev = "dispose" => (ret'.out = "ok" /\ instance' = 0)]_vars
    /\ [][(ret'.ev = "dispose" /\ ret.ev = "dispose" /\ ret'.m = ret.m)
          => UNCHANGED <<mgrVars, viteServer, isStarting, themeWatcher, servers,
                         watchers, starts, currentComponent, mq, themeDir, fileVars>>]_vars
    /\ [][(ret'.ev = "getInstance" /\ ret'.out = "new")
          => /\ instance = 0
             /\ instance' = ret'.m
             /\ ret'.m \notin Made
             /\ viteServer'[ret'.m] = 0
             /\ ~isStarting'[ret'.m]
             /\ currentComponent'[ret'.m] = NoComp
             /\ themeWatcher'[ret'.m] = 0
             /\ \A w \in 1..Len(watchers') : watchers'[w].owner # ret'.m
             /\ \A x \in 1..Len(servers') : servers'[x].owner # ret'.m]_vars

C11_Witness ==
    /\ ret.ev = "dispose"
    /\ ret.m = 2
    /\ Len(stops) = 2
    /\ stops[1].m = 2
    /\ stops[2].m = 2

\* C12: getInstance with no instance registered and an extension path or a
\* workspace path that is empty or not a string throws at once, registers no
\* singleton and changes nothing, so that getInstance with valid paths still
\* constructs a manager afterwards; no manager is ever constructed with an
\* empty path.
C12_InvalidPathsRejected ==
    /\ [][(ret'.ev = "getInstance" /\ ret'.out = "error")
          => /\ instance = 0
             /\ instance' = 0
             /\ ret'.msg.text \in {"Invalid extensionPath", "Invalid workspacePath"}
             /\ UNCHANGED <<mgrVars, lifeVars, currentComponent, mq, themeDir, fileVars>>
             /\ nMgr < MaxMgr
                => ENABLED (GetInstance(StringArg(ValidExt), StringArg(ValidWs))
                            /\ ret'.out = "new")]_vars
    /\ [](\A m \in Made : extensionPath[m] # <<>> /\ workspacePath[m] # <<>>)

C12_Witness ==
    /\ ret.ev = "getInstance"
    /\ ret.out = "error"
    /\ ret.msg.text = "Invalid workspacePath"
    /\ nMgr = 1
    /\ instance = 0

\* C13: getServerUrl() and isRunning() change no part of the manager state
\* and no file; getServerUrl() returns the origin http://localhost:5174 in
\* every state, and isRunning() tells whether a server handle is set.
C13_QueriesArePure ==
    [][(ret'.ev \in {"getServerUrl", "isRunning"})
       => /\ UNCHANGED <<mgrVars, lifeVars, currentComponent, mq, themeDir, fileVars>>
          /\ ret'.ev = "getServerUrl" => ret'.val = <<"http", "localhost", 5174>>
          /\ ret'.ev = "isRunning" => ret'.val = <<viteServer[ret'.m] # 0>>]_vars

C13_Witness ==
    /\ ret.ev = "getServerUrl"
    /\ ret.val = <<"http", "localhost", 5174>>
    /\ isStarting[ret.m]
    /\ viteServer[ret.m] = 0

\* what a JSX parser reads from an attribute value that opens with a double
\* quote: the text up to the next double quote, and what follows it
ReadJSXString(value) ==
    LET rest == Tail(value)
        k == CHOOSE n \in 1..(Len(rest) + 1) :
                /\ n <= Len(rest) => rest[n] = DQ
                /\ \A j \in 1..(n - 1) : rest[j] # DQ
    IN  [text |-> SubSeq(rest, 1, k - 1), tail |-> SubSeq(rest, k + 1, Len(rest))]

\* C20: in the entry source written for descriptor d the props appear in the
\* order of d.props; a boolean prop is emitted as {true} exactly when its
\* stored text is "true" and as {false} otherwise; a string prop is emitted as
\* a double-quoted string literal that reads back as its stored text.
C20_PropsSerialized ==
    UpdateReturned
    => LET props == ret.d.props
           jsx == entryFile.jsx
       IN  /\ Len(jsx) = Len(props)
           /\ \A i \in 1..Len(props) :
                /\ jsx[i].propName = props[i].propName
                /\ props[i].propType = "boolean"
                   => jsx[i].value = <<"{">> \o (IF props[i].defaultValue = TrueText
                                                 THEN TrueText ELSE FalseText) \o <<"}">>
                /\ props[i].propType = "string"
                   => /\ Head(jsx[i].value) = DQ
                      /\ ReadJSXString(jsx[i].value) =
                            [text |-> props[i].defaultValue, tail |-> <<>>]

Range(seq) == {seq[i] : i \in 1..Len(seq)}

\* the state right after a scan's stylesheet was written: ret.from is the
\* theme directory as the scan read it, cssFile the text written
WriteDone == ret.ev \in {"cssWrite", "watchWrite"} /\ ret.out = "ok"

\* the theme files a scan of dir reads
ReadFiles(dir) == {f \in Range(dir.files) : dir.exists /\ f.ext = "css" /\ f.readable}

\* name occurs as consecutive segments of a declaration of a file read from dir
Declared(name, dir) ==
    \E f \in ReadFiles(dir) : \E decl \in Range(AllDecls(f.text)) :
        \E k \in 0..(Len(decl) - Len(name)) : SubSeq(decl, k + 1, k + Len(name)) = name

\* C14: the stylesheet a scan writes depends on the theme directory as the
\* scan read it and on nothing else: a scan over the directory the first
\* written stylesheet was scanned from writes that same text, whatever
\* happened in between, and every name the text has beyond the baseline is
\* declared in a theme file of the scanned directory, so that a removed token
\* is absent.
C14_StylesheetFromDirAlone ==
    WriteDone
    => /\ ret.from = firstScan.dir => cssFile = firstScan.css
       /\ \A name \in Range(cssFile.colors) \ Range(Words(StandardColors)) :
            Declared(name, ret.from)
       /\ \A i \in (Len(StandardSpacing) + 1)..Len(cssFile.spacing) :
            Declared(cssFile.spacing[i], ret.from)
       /\ \A i \in (Len(StandardTextSizes) + 1)..Len(cssFile.textSizes) :
            Declared(cssFile.textSizes[i], ret.from)
       /\ \A i \in (Len(StandardFonts) + 1)..Len(cssFile.fonts) :
            Declared(cssFile.fonts[i], ret.from)
       /\ \A u \in Range(cssFile.utilityNames) :
            \E f \in ReadFiles(ret.from) : \E item \in Range(f.text) :
                item.kind = "utility" /\ item.name = u

C14_Witness ==
    /\ WriteDone
    /\ firstScan.dir = ThemeDir(<<OceanSandCss>>)
    /\ ret.from = ThemeDir(<<BrokenCss, OceanCss>>)
    /\ <<"sand">> \notin Range(cssFile.colors)
    /\ <<"ocean">> \in Range(cssFile.colors)

\* what a scan of dir discovers, each collection as a set
Discovered(dir) ==
    LET all == MergeFiles(NoTokens, IF dir.exists THEN CssFiles(dir) ELSE <<>>)
    IN  [files |-> {f.name : f \in Range(IF dir.exists THEN CssFiles(dir) ELSE <<>>)},
         colors |-> Range(all.colors), spacing |-> Range(all.spacing),
         textSizes |-> Range(all.textSizes), fonts |-> Range(all.fonts),
         utilityDefinitions |-> Range(all.utilityDefinitions)]

\* C15: two scans whose discovered token sets are equal as sets write
\* byte-identical stylesheets, in whatever order the tokens were discovered.
C15_OrderIndependent ==
    (WriteDone /\ Discovered(ret.from) = Discovered(firstScan.dir))
    => cssFile = firstScan.css

\* C16: for every declaration --color-<n>-<shade>: of a theme file the
\* extractor's colors contain <n>, and for every declaration --spacing-<n>:
\* its spacing contains <n>, wherever in the text the declaration stands.
C16_ExtractsColorAndSpacing ==
    WriteDone
    => \A f \in ReadFiles(ret.from) : \A decl \in Range(AllDecls(f.text)) :
          /\ (Len(decl) = 3 /\ decl[1] = "color" /\ decl[3] \in Numerals)
             => <<decl[2]>> \in Range(ParseCustomThemeProperties(f.text).colors)
          /\ (Len(decl) = 2 /\ decl[1] = "spacing")
             => <<decl[2]>> \in Range(ParseCustomThemeProperties(f.text).spacing)

\* C17: every @utility block of a theme file is in utilityDefinitions as the
\* very text span of the block in the file.
C17_UtilityVerbatim ==
    WriteDone
    => \A f \in ReadFiles(ret.from) : \A item \in Range(f.text) :
          item.kind = "utility"
          => UtilityText(item) \in Range(ParseCustomThemeProperties(f.text).utilityDefinitions)

\* C18: a scan of a workspace without a theme directory does not throw, and
\* the stylesheet it writes is the baseline: no theme import, the standard
\* lists only, no inclusion list of custom utilities.
C18_NoThemeDirGivesBaseline ==
    /\ [][(ret'.ev = "updateCall" /\ ~themeDir.exists)
          => /\ mq'[Len(mq')].k = "css"
             /\ mq'[Len(mq')].from = themeDir]_vars
    /\ []((WriteDone /\ ~ret.from.exists)
          => /\ Discovered(ret.from).colors = {}
             /\ cssFile.imports = <<>>
             /\ cssFile.colors = Words(StandardColors)
             /\ cssFile.spacing = Words(StandardSpacing)
             /\ cssFile.textSizes = Words(StandardTextSizes)
             /\ cssFile.fonts = Words(StandardFonts)
             /\ cssFile.utilityNames = <<>>)

C18_Witness ==
    /\ WriteDone
    /\ ~ret.from.exists
    /\ firstScan.dir = ThemeDir(<<ShadeCss, UtilCss>>)
    /\ firstScan.css.utilityNames # <<>>

\* C19: a theme file that cannot be read does not abort the scan: the
\* stylesheet is written, and it has the names discovered in every theme file
\* that can be read.
C19_UnreadableFileSkipped ==
    WriteDone
    => \A f \in ReadFiles(ret.from) :
          LET parsed == ParseCustomThemeProperties(f.text)
          IN  /\ \A c \in Range(parsed.colors) :
                    ValidCustomColor(c) => c \in Range(cssFile.colors)
              /\ Range(parsed.spacing) \subseteq Range(cssFile.spacing)
              /\ Range(parsed.textSizes) \subseteq Range(cssFile.textSizes)
              /\ Range(parsed.fonts) \subseteq Range(cssFile.fonts)
              /\ \A def \in Range(parsed.utilityDefinitions) :
                    def[3] \in Range(cssFile.utilityNames)

C19_Witness ==
    /\ WriteDone
    /\ ret.from = ThemeDir(<<BrokenCss, OceanCss>>)
    /\ <<"ocean">> \in Range(cssFile.colors)
    /\ <<"lava">> \notin Range(cssFile.colors)

\* C21: in the entry source written for descriptor d, a prop of type array or
\* object is emitted as its stored text, verbatim, as an expression: it is
\* not wrapped in double quotes.
C21_ArrayObjectVerbatim ==
    UpdateReturned
    => \A i \in 1..Len(ret.d.props) :
          ret.d.props[i].propType \in {"array", "object"}
          => /\ Head(entryFile.jsx[i].value) # DQ
             /\ entryFile.jsx[i].value \in
                   {ret.d.props[i].defaultValue,
                    <<"{">> \o ret.d.props[i].defaultValue \o <<"}">>}

\* a path with its ".." segments applied
RECURSIVE Normalize(_, _)
Normalize(done, rest) ==
    IF rest = <<>> THEN done
    ELSE IF Head(rest) = ".."
         THEN Normalize(IF done = <<>> THEN <<>> ELSE SubSeq(done, 1, Len(done) - 1), Tail(rest))
         ELSE IF Head(rest) = "." THEN Normalize(done, Tail(rest))
         ELSE Normalize(done \o <<Head(rest)>>, Tail(rest))

\* the file the import statement of the entry source, which lies in dir,
\* names by specifier: a specifier that starts with "." or ".." is a path
\* relative to dir, any other one names a package
ImportTarget(dir, specifier) ==
    IF specifier # <<>> /\ Head(specifier) \in {".", ".."}
    THEN [file |-> Normalize(dir, specifier)]
    ELSE [package |-> specifier]

\* C22: the import path of the entry source written for descriptor d is the
\* relative path from the staging directory to d.path; as a module specifier
\* in the entry source it names the file d.path, wherever that file lies; for
\* /ext/preview and /ws/src/components/Btn.tsx it is
\* ../../ws/src/components/Btn.tsx.
C22_ImportPathUsable ==
    UpdateReturned
    => LET staging == extensionPath[ret.m] \o <<"preview">>
       IN  /\ ImportTarget(staging, entryFile.importPath) = [file |-> ret.d.path]
           /\ (staging = <<"ext", "preview">> /\ ret.d.path = BtnPath)
              => entryFile.importPath = <<"..", "..", "ws", "src", "components", "Btn.tsx">>

NoDuplicates(seq) == \A i, j \in 1..Len(seq) : seq[i] = seq[j] => i = j

\* C23: every token list of a written stylesheet is the union of the
\* baseline tokens and the discovered tokens without duplicates: no token
\* occurs twice in a list, also when a discovered token is a baseline token.
C23_ListsDeduplicated ==
    WriteDone
    => /\ NoDuplicates(cssFile.colors)
       /\ NoDuplicates(cssFile.spacing)
       /\ NoDuplicates(cssFile.textSizes)
       /\ NoDuplicates(cssFile.fonts)
       /\ NoDuplicates(cssFile.utilityNames)
       /\ Range(cssFile.spacing) = Range(Words(StandardSpacing)) \cup Discovered(ret.from).spacing
       /\ Range(cssFile.textSizes) =
             Range(Words(StandardTextSizes)) \cup Discovered(ret.from).textSizes
       /\ Range(cssFile.fonts) = Range(Words(StandardFonts)) \cup Discovered(ret.from).fonts

\* the colour candidates a scan of dir discovers that the filter is to discard
Discarded(dir) ==
    {c \in Discovered(dir).colors :
        \/ Len(c) = 1 /\ c[1] \in SemanticTokens
        \/ c[1] \in DigitLed}

\* C24: no discovered colour candidate that is a semantic or system token, or
\* that does not begin with a letter, is in the colour list of a written
\* stylesheet.
C24_FilteredColorsAbsent ==
    WriteDone => Discarded(ret.from) \cap Range(cssFile.colors) = {}

C24_Witness ==
    /\ WriteDone
    /\ <<"border">> \in Discarded(ret.from)
    /\ <<"500">> \in Discarded(ret.from)
    /\ <<"ocean">> \in Range(cssFile.colors)

\* the watcher-triggered regeneration at the head of the microtask queue
WatchWritePending == mq # <<>> /\ Head(mq).k = "wcss"

\* C25: every change notification of a live watcher for a file name ending in
\* .css starts exactly one rescan of the theme directory, whose stylesheet is
\* written by exactly one later step, whatever regeneration came before
\* (nothing is coalesced); a notification for another file name starts none;
\* the stylesheet is written by no step other than these and the scans of
\* updateComponent.
C25_OneRegenerationPerCssEvent ==
    /\ [][(ret'.ev = "watch" /\ ret'.val = <<"css">>)
          => /\ ret'.out \in {"regen", "scanError"}
             /\ ret'.out = "regen"
                => mq' = <<Cont("wcss", ret'.m, NoComp, ScanAndGenerate(themeDir), FALSE, FALSE)>>
             /\ ret'.out = "scanError" => themeDir.exists /\ mq' = <<>>
             /\ cssFile' = cssFile]_vars
    /\ [][(ret'.ev = "watch" /\ ret'.val # <<"css">>)
          => /\ ret'.out = "ignored"
             /\ UNCHANGED <<mq, cssFile, entryFile>>]_vars
    /\ [][(WatchWritePending /\ mq' # mq)
          => /\ mq' = Tail(mq)
             /\ ret'.ev = "watchWrite"
             /\ ret'.out = "ok" => cssFile' = Head(mq).css
             /\ ret'.out # "ok" => cssFile' = cssFile]_vars
    /\ [][cssFile' # cssFile => ret'.ev \in {"cssWrite", "watchWrite"}]_vars
    /\ [](\A w \in LiveWatchers : mq = <<>> => ENABLED WatchEvent(w, "css"))

\* a regeneration started by a change notification, written
C25_Witness ==
    /\ ret.ev = "watchWrite"
    /\ ret.out = "ok"
    /\ ret.from.exists
    /\ cssFile = ScanAndGenerate(ret.from)
    /\ cssFile # ShippedCss

\* a start() call has returned without error: at once by its early return,
\* or after listen settled
StartReturned ==
    \/ ret.ev = "startCall" /\ ret.out = "noop"
    \/ ret.ev = "start" /\ ret.out = "ok"

\* C26: whenever a start() call returns without error, isRunning() is true
\* at that moment, also when the call overlapped another start() or a stop().
C26_StartReturnedMeansRunning == StartReturned => IsRunning(ret.m)

\* C27: isRunning() is true only in state Running: it is false while a
\* start() call of the manager is in progress.
C27_RunningOnlyAfterReady ==
    \A m \in Mgrs : IsRunning(m) => (~isStarting[m] /\ StartsOf(m) = {})

\* dispose() was called on manager m: it was constructed and the singleton
\* holds it no longer
Disposed(m) == m \in Made /\ instance # m

\* the dev servers of manager m that serve the preview origin
ListeningServersOf(m) == {s \in OpenServersOf(m) : servers[s].st = "listening"}

\* C28: after dispose() was called on a manager, in whatever state, the
\* manager eventually has, and keeps having, no running dev server and no live
\* watch subscription (provided no close() of a server fails).
C28_DisposedEventuallyClean ==
    \A m \in Mgrs :
        [](ret.ev = "stop" => ret.out = "ok")
        => [](Disposed(m) => <>[](ListeningServersOf(m) = {} /\ LiveWatchersOf(m) = {}))

\* C29: a manager never has more than one live theme watcher: every watcher
\* that was created for it is the one its handle holds, or has been closed.
C29_AtMostOneWatcher ==
    \A m \in Mgrs :
        /\ Cardinality(LiveWatchersOf(m)) <= 1
        /\ \A w \in LiveWatchersOf(m) : themeWatcher[m] = w

\* no updateComponent or updateComponentProps call is suspended
NoUpdateInFlight == \A i \in 1..Len(mq) : ~IsUpdate(mq[i])

\* C30: whenever a component is loaded and no updateComponent or
\* updateComponentProps call is in flight, the entry source on disk is the
\* one generated from getCurrentComponent().
C30_EntryMatchesCurrent ==
    \A m \in Current :
        (GetCurrentComponent(m) # NoComp /\ NoUpdateInFlight)
        => entryFile = EntryOf(m, GetCurrentComponent(m))

====
